---------------------------- MODULE Spec2Model ----------------------------
(***************************************************************************)
(* Post-filters of nnsvs (src/nnsvs/postfilters.py).                       *)
(*                                                                         *)
(* A tensor of shape (B, T, C) is a record [B, T, ch]: ch is the sequence  *)
(* of its C channel columns.  A column is [id, res]: id names the input    *)
(* channel whose values the column carries (0: none), res is the digest of *)
(* the residual a filter added to it (0: nothing added).  The activations  *)
(* inside a filter are maps [ok, err, shape, dig]: the shape as torch      *)
(* computes it and a digest of everything the values depend on.            *)
(***************************************************************************)
EXTENDS Integers, Sequences, FiniteSets, TLC

VARIABLES obj, ctor, call, prev

vars == <<obj, ctor, call, prev>>

(***************************************************************************)
(* Bounds of the model.                                                    *)
(***************************************************************************)
MaxTime == 3
MaxChan == 3
MaxWeight == 1
DigMod == 5

Batches == {1, 2}
Times == 1..MaxTime
Noise == {0, 1}
Weights == 1..MaxWeight

(***************************************************************************)
(* Program constants.                                                      *)
(***************************************************************************)
NoneDim == 0
Conv2dChannels == 128
Conv1dChannels == 16
TadnKernel == 7
Scale == 1

Bool == {TRUE, FALSE}

Max(a, b) == IF a > b THEN a ELSE b
Min(a, b) == IF a < b THEN a ELSE b

RECURSIVE SumSeq(_)
SumSeq(s) == IF s = <<>> THEN 0 ELSE Head(s) + SumSeq(Tail(s))

(***************************************************************************)
(* Python's slicing of a sequence, s[a:b], s[a:] and s[:b]: a negative     *)
(* index counts from the end, indices are clamped to [0, len] and an empty *)
(* range gives the empty sequence.  Indices are 0-based as in Python.      *)
(***************************************************************************)
PyIndex(i, n) == IF i < 0 THEN Max(i + n, 0) ELSE Min(i, n)

PySlice(s, a, b) ==
    LET lo == PyIndex(a, Len(s))
        hi == PyIndex(b, Len(s))
    IN  IF hi <= lo THEN <<>> ELSE SubSeq(s, lo + 1, hi)

PySliceFrom(s, a) == PySlice(s, a, Len(s))

PySliceTo(s, b) == PySlice(s, 0, b)

(***************************************************************************)
(* Tensors (B, T, C) and activation maps.                                  *)
(***************************************************************************)
Col(i) == [id |-> i, res |-> 0]

\* The input of width c: every channel column carries its own identity.
Input(b, t, c) == [B |-> b, T |-> t, ch |-> [j \in 1..c |-> Col(j)]]

Width(x) == Len(x.ch)

\* x[:, :, a:b], x[:, :, a:] and x[:, :, :b]
ChanSlice(x, a, b) == [x EXCEPT !.ch = PySlice(x.ch, a, b)]

ChanSliceFrom(x, a) == [x EXCEPT !.ch = PySliceFrom(x.ch, a)]

ChanSliceTo(x, b) == [x EXCEPT !.ch = PySliceTo(x.ch, b)]

\* The digest of a tensor's values.
XDig(x) == SumSeq([j \in 1..Len(x.ch) |-> x.ch[j].id + x.ch[j].res]) % DigMod

Map(shape, dig) == [ok |-> TRUE, err |-> "", shape |-> shape, dig |-> dig % DigMod]

Err(what) == [ok |-> FALSE, err |-> what, shape |-> <<>>, dig |-> 0]

\* torch.cat([a, b], dim=1) of two maps (N, C, ...): all other extents must agree.
Cat1(a, b) ==
    IF ~a.ok THEN a
    ELSE IF ~b.ok THEN b
    ELSE IF Len(a.shape) # Len(b.shape)
            \/ \E i \in 1..Len(a.shape) : i # 2 /\ a.shape[i] # b.shape[i]
         THEN Err("RuntimeError")
    ELSE Map([a.shape EXCEPT ![2] = a.shape[2] + b.shape[2]], a.dig + b.dig)

\* a + b and a * b with torch's broadcasting: extents agree or one of them is 1.
Broadcast(a, b) ==
    IF ~a.ok THEN a
    ELSE IF ~b.ok THEN b
    ELSE IF Len(a.shape) # Len(b.shape)
            \/ \E i \in 1..Len(a.shape) :
                 a.shape[i] # b.shape[i] /\ a.shape[i] # 1 /\ b.shape[i] # 1
         THEN Err("RuntimeError")
    ELSE Map([i \in 1..Len(a.shape) |-> Max(a.shape[i], b.shape[i])], a.dig + b.dig)

(***************************************************************************)
(* nn.Conv1d / nn.Conv2d applied to a map (N, C, spatial...): the input    *)
(* must have inCh channels, reflect padding must be narrower than the      *)
(* extent it pads, and the padded extent must hold the kernel.             *)
(***************************************************************************)
ConvNd(inCh, outCh, ks, pad, mode, w, m) ==
    IF ~m.ok THEN m
    ELSE LET n == Len(ks)
             sp == [i \in 1..n |-> m.shape[i + 2]]
         IN  IF Len(m.shape) # n + 2 \/ m.shape[2] # inCh THEN Err("RuntimeError")
             ELSE IF \E i \in 1..n : sp[i] = 0 THEN Err("RuntimeError")
             ELSE IF mode = "reflect" /\ \E i \in 1..n : pad[i] > 0 /\ pad[i] >= sp[i]
                  THEN Err("RuntimeError")
             ELSE IF \E i \in 1..n : sp[i] + 2 * pad[i] < ks[i] THEN Err("RuntimeError")
             ELSE Map(<<m.shape[1], outCh>>
                        \o [i \in 1..n |-> sp[i] + 2 * pad[i] - ks[i] + 1],
                      w + m.dig)

\* nn.Linear(1, out): the last extent must be 1 and becomes out.
Linear1(outDim, w, m) ==
    IF ~m.ok THEN m
    ELSE IF m.shape[Len(m.shape)] # 1 THEN Err("RuntimeError")
    ELSE Map([m.shape EXCEPT ![Len(m.shape)] = outDim], w + m.dig)

\* HalfKernel with the padding one short of the kernel's half width.
HalfKernelShort(ks) == (ks - 2) \div 2

\* padding = (ks - 1) // 2
HalfKernel(ks) == (ks - 1) \div 2

(***************************************************************************)
(* SimplifiedTADN                                                          *)
(***************************************************************************)
\* SimplifiedTADN.forward(z, c), maps of shape (B, C, T): z * sigmoid(conv_gamma(c))
TadnForward(inDim, w, z, c) ==
    Broadcast(z, ConvNd(inDim, inDim, <<TadnKernel>>, <<HalfKernel(TadnKernel)>>,
                        "zeros", w, c))


(***************************************************************************)
(* What a forward call gives back: the output tensor, or the error raised. *)
(***************************************************************************)
NoTensor == [B |-> 0, T |-> 0, ch |-> <<>>]

Returned(t) == [ok |-> TRUE, err |-> "", out |-> t, trace |-> <<>>]

Raised(what) == [ok |-> FALSE, err |-> what, out |-> NoTensor, trace |-> <<>>]

\* The tensor (B, T, C) of a map m with extents (B, T, C) at positions b, t, c
\* of its shape: the columns of x_syn, each with the residual r added.
OutTensor(x, m, r, b, t, c, keepInput) ==
    IF ~m.ok THEN Raised(m.err)
    ELSE Returned(
           [B |-> m.shape[b], T |-> m.shape[t],
            ch |-> [j \in 1..m.shape[c] |->
                      LET src == IF Width(x) = 1 THEN x.ch[1] ELSE x.ch[j]
                      IN  IF keepInput
                          THEN [id |-> src.id, res |-> (src.res + r.dig) % DigMod]
                          ELSE [id |-> 0, res |-> r.dig]]])

\* out = x_syn + residual (or the residual alone), as a tensor (B, T, C).
AddResidual(x, xs, residual, b, t, c, keepInput) ==
    OutTensor(x, IF keepInput THEN Broadcast(xs, residual) ELSE residual,
              residual, b, t, c, keepInput)

(***************************************************************************)
(* Conv2dPostFilter                                                        *)
(***************************************************************************)
NoObject == [kind |-> "none"]

\* Conv2dPostFilter.__init__: the error it raises ("" when it returns).
Conv2dInitError(a) ==
    IF a.use_tadn /\ a.in_dim = NoneDim THEN "AssertionError"
    ELSE IF a.use_tadn /\ a.noise_type # "bin_wise" THEN "AssertionError"
    ELSE IF a.noise_type = "frame_wise"
         THEN (IF a.in_dim = NoneDim THEN "TypeError" ELSE "")
    ELSE IF a.noise_type = "bin_wise" THEN ""
    ELSE "ValueError"

\* The object Conv2dPostFilter.__init__ leaves behind.
Conv2dObject(a) ==
    [kind |-> "Conv2dPostFilter",
     use_noise |-> a.use_noise,
     noise_type |-> a.noise_type,
     residual |-> a.residual,
     scale |-> Scale,
     kernel_size |-> a.kernel_size,
     padding |-> <<HalfKernel(a.kernel_size[1]), HalfKernel(a.kernel_size[2])>>,
     padding_mode |-> a.padding_mode,
     channels |-> Conv2dChannels,
     in_dim |-> a.in_dim,
     tadn |-> a.use_tadn,
     fc |-> a.noise_type = "frame_wise",
     w |-> a.w]

\* (B, 1, T, C) -> squeeze(1).transpose(1, 2) -> (B, C, T), and back.
SqueezeTranspose(m) ==
    IF ~m.ok THEN m ELSE Map(<<m.shape[1], m.shape[4], m.shape[3]>>, m.dig)

TransposeUnsqueeze(m) ==
    IF ~m.ok THEN m ELSE Map(<<m.shape[1], 1, m.shape[3], m.shape[2]>>, m.dig)

\* The noise field Conv2dPostFilter.forward draws: drawn whatever use_noise is.
Conv2dNoise(f, x, draw) ==
    IF f.noise_type = "bin_wise"
    THEN Map(<<x.B, 1, x.T, Width(x)>>, draw * f.scale)
    ELSE Linear1(f.in_dim, f.w, Map(<<x.B, 1, x.T, 1>>, draw * f.scale))

\* Conv2dStage1Input with the noise field, which is drawn whatever use_noise
\* is, added to x_syn when noise injection is off.
Conv2dStage1InputNoiseAdded(f, xs, z) ==
    IF f.use_noise THEN Cat1(xs, z) ELSE Broadcast(xs, z)

\* The input of the first stage: x_syn alone, or x_syn with the noise field.
Conv2dStage1Input(f, xs, z) == IF f.use_noise THEN Cat1(xs, z) ELSE xs

\* The noise field after the optional modulation by SimplifiedTADN.
Conv2dModulated(f, xs, z0) ==
    IF f.use_noise /\ f.tadn
    THEN TransposeUnsqueeze(
           TadnForward(f.in_dim, f.w, SqueezeTranspose(z0), SqueezeTranspose(xs)))
    ELSE z0

\* The four convolution stages of Conv2dPostFilter.forward on x_syn and the
\* noise field z.
Conv2dStages(f, x, xs, z) ==
    LET C  == f.channels
        ks == f.kernel_size
        pd == f.padding
        pm == f.padding_mode
        y1 == ConvNd(IF f.use_noise THEN 2 ELSE 1, C, ks, pd, pm, f.w,
                     Conv2dStage1Input(f, xs, z))
        y2 == ConvNd(C + 1, C * 2, ks, pd, pm, f.w, Cat1(xs, y1))
        y3 == ConvNd(C * 2 + 1, C, ks, pd, pm, f.w, Cat1(xs, y2))
    IN  IF ~z.ok THEN Raised(z.err)
        ELSE AddResidual(x, xs, ConvNd(C + 1, 1, ks, pd, pm, f.w, Cat1(xs, y3)),
                         1, 3, 4, f.residual)

\* Conv2dPostFilter.forward(x) with the noise draw `draw`.
Conv2dForward(f, x, draw) ==
    Conv2dStages(f, x, Map(<<x.B, 1, x.T, Width(x)>>, XDig(x)),
                 Conv2dModulated(f, Map(<<x.B, 1, x.T, Width(x)>>, XDig(x)),
                                 Conv2dNoise(f, x, draw)))

(***************************************************************************)
(* Conv1dPostFilter                                                        *)
(***************************************************************************)
\* Conv1dPostFilter.__init__: the error it raises ("" when it returns).
Conv1dInitError(a) ==
    IF a.use_tadn /\ a.in_dim = NoneDim THEN "AssertionError"
    ELSE IF a.use_tadn /\ ~a.use_noise THEN "AssertionError"
    ELSE ""

Conv1dObject(a) ==
    [kind |-> "Conv1dPostFilter",
     use_noise |-> a.use_noise,
     scale |-> Scale,
     kernel_size |-> a.kernel_size,
     padding |-> HalfKernel(a.kernel_size),
     padding_mode |-> a.padding_mode,
     channels |-> Conv1dChannels,
     in_dim |-> a.in_dim,
     tadn |-> a.use_tadn,
     w |-> a.w]

\* The input of the first stage: x_syn alone, or x_syn with the noise field.
Conv1dStage1Input(f, xs, draw) ==
    IF f.use_noise
    THEN LET z0 == Map(xs.shape, draw * f.scale)
             z  == IF f.tadn THEN TadnForward(f.in_dim, f.w, z0, xs) ELSE z0
         IN  Cat1(xs, z)
    ELSE xs

\* The four convolution stages of Conv1dPostFilter.forward on x_syn.
Conv1dStages(f, x, xs, draw) ==
    LET C  == f.channels
        ks == <<f.kernel_size>>
        pd == <<f.padding>>
        pm == f.padding_mode
        y1 == ConvNd(IF f.use_noise THEN 2 ELSE 1, C, ks, pd, pm, f.w,
                     Conv1dStage1Input(f, xs, draw))
        y2 == ConvNd(C + 1, C * 2, ks, pd, pm, f.w, Cat1(xs, y1))
        y3 == ConvNd(C * 2 + 1, C, ks, pd, pm, f.w, Cat1(xs, y2))
    IN  AddResidual(x, xs, ConvNd(C + 1, 1, ks, pd, pm, f.w, Cat1(xs, y3)),
                    1, 3, 2, TRUE)

\* Conv1dPostFilter.forward(x) with the noise draw `draw`.
Conv1dForward(f, x, draw) ==
    Conv1dStages(f, x, Map(<<x.B, Width(x), x.T>>, XDig(x)), draw)

(***************************************************************************)
(* _PadConv2dPostFilter                                                    *)
(***************************************************************************)
\* PadWidths with the middle band padded on both feature-axis edges.
PadWidthsMiddlePadded(padding_side, padding) ==
    IF padding_side = "left" THEN <<padding, 0, padding, padding>>
    ELSE IF padding_side = "none" THEN <<padding, padding, padding, padding>>
    ELSE <<0, padding, padding, padding>>

\* The (left, right, top, bottom) widths of nn.ReflectionPad2d for a side:
\* left and right pad the feature axis, top and bottom the time axis.
PadWidths(padding_side, padding) ==
    IF padding_side = "left" THEN <<padding, 0, padding, padding>>
    ELSE IF padding_side = "none" THEN <<0, 0, padding, padding>>
    ELSE <<0, padding, padding, padding>>

\* _PadConv2dPostFilter.__init__: the error it raises ("" when it returns).
PadConv2dInitError(a) ==
    IF a.padding_side \in {"left", "none", "right"} THEN "" ELSE "ValueError"

PadConv2dObject(a) ==
    [kind |-> "_PadConv2dPostFilter",
     padding |-> HalfKernel(a.kernel_size),
     padding_side |-> a.padding_side,
     pad |-> PadWidths(a.padding_side, HalfKernel(a.kernel_size)),
     kernel_size |-> a.kernel_size,
     channels |-> Conv2dChannels,
     in_dim |-> a.in_dim,
     w |-> a.w]

\* nn.ReflectionPad2d on a map (B, 1, T, W): each width must be less than
\* the extent it pads.
PadMap(pad, m) ==
    IF ~m.ok THEN m
    ELSE IF pad[1] >= m.shape[4] \/ pad[2] >= m.shape[4]
            \/ pad[3] >= m.shape[3] \/ pad[4] >= m.shape[3]
         THEN Err("RuntimeError")
    ELSE Map(<<m.shape[1], m.shape[2], m.shape[3] + pad[3] + pad[4],
               m.shape[4] + pad[1] + pad[2]>>, m.dig)

\* The columns of a reflection-padded feature axis: the mirror image of the
\* columns next to each edge, the edge column itself not repeated.
PadCols(pad, ch) ==
    [j \in 1..pad[1] |-> ch[pad[1] + 2 - j]]
      \o ch
      \o [j \in 1..pad[2] |-> ch[Len(ch) - j]]

\* TrimInput with the 'left' band trimmed on its low edge, as the 'right'
\* band is.
TrimInputLowEdge(f, x) ==
    IF f.padding_side = "none" THEN ChanSlice(x, f.padding, -f.padding)
    ELSE ChanSliceFrom(x, f.padding)

\* The conditioning input after the first stage: x trimmed on the side(s)
\* that overlap the neighbouring band.
TrimInput(f, x) ==
    IF f.padding_side = "left" THEN ChanSliceTo(x, -f.padding)
    ELSE IF f.padding_side = "none" THEN ChanSlice(x, f.padding, -f.padding)
    ELSE ChanSliceFrom(x, f.padding)

TensorMap(x) == Map(<<x.B, 1, x.T, Width(x)>>, XDig(x))

\* The last three stages of _PadConv2dPostFilter.forward on the trimmed
\* conditioning input x_syn and the first stage's output y1.
PadConv2dStages(f, x_syn, xs, y1) ==
    LET C  == f.channels
        ks == f.kernel_size
        p  == f.padding
        y2 == ConvNd(C + 1, C * 2, <<ks, 3>>, <<p, 1>>, "reflect", f.w, Cat1(xs, y1))
        y3 == ConvNd(C * 2 + 1, C, <<ks, 3>>, <<p, 1>>, "reflect", f.w, Cat1(xs, y2))
    IN  AddResidual(x_syn, xs,
                    ConvNd(C + 1, 1, <<ks, 1>>, <<p, 0>>, "reflect", f.w, Cat1(xs, y3)),
                    1, 3, 4, TRUE)

\* What a call of _PadConv2dPostFilter.forward gives back, with the padded
\* input of the first stage (px) and the trimmed conditioning input (x_syn).
PadConv2dCall(f, x, px, y1, x_syn, r) ==
    [ok |-> r.ok, err |-> r.err, out |-> r.out,
     side |-> f.padding_side, x |-> x,
     px |-> IF px.ok
            THEN [B |-> x.B, T |-> px.shape[3], ch |-> PadCols(f.pad, x.ch)]
            ELSE NoTensor,
     y1 |-> y1.shape,
     x_syn |-> IF y1.ok THEN x_syn ELSE NoTensor]

\* The first stage on the padded input and noise, then the other stages.
PadConv2dStage1(f, x, px, y1) ==
    PadConv2dCall(f, x, px, y1, TrimInput(f, x),
                  PadConv2dStages(f, TrimInput(f, x), TensorMap(TrimInput(f, x)), y1))

PadConv2dPadded(f, x, px, pz) ==
    PadConv2dStage1(f, x, px,
                    ConvNd(2, f.channels, <<f.kernel_size, f.kernel_size>>, <<0, 0>>,
                           "zeros", f.w, Cat1(px, pz)))

\* _PadConv2dPostFilter.forward(x, z)
PadConv2dForward(f, x, z) ==
    PadConv2dPadded(f, x, PadMap(f.pad, TensorMap(x)),
                    PadMap(f.pad,
                           Linear1(f.in_dim, f.w,
                                   IF z.ok
                                   THEN Map(<<z.shape[1], 1, z.shape[2], z.shape[3]>>, z.dig)
                                   ELSE z)))

(***************************************************************************)
(* MultistreamConv2dPostFilter                                             *)
(***************************************************************************)
\* BandInitError with the band sizes checked against the reach.
BandInitErrorValidating(a) ==
    IF Len(a.stream_sizes) # 3 THEN "AssertionError"
    ELSE IF a.stream_sizes[1] < HalfKernel(a.kernel_size)
            \/ a.stream_sizes[3] < HalfKernel(a.kernel_size)
         THEN "AssertionError"
    ELSE ""

\* MultistreamConv2dPostFilter.__init__: the error it raises ("" when it returns).
BandInitError(a) ==
    IF Len(a.stream_sizes) # 3 THEN "AssertionError"
    ELSE IF \E side \in {"left", "none", "right"} :
              PadConv2dInitError([padding_side |-> side]) # ""
         THEN "ValueError"
    ELSE ""

BandObject(a) ==
    LET padding == HalfKernel(a.kernel_size)
        sub(size, side) ==
            PadConv2dObject([in_dim |-> size, kernel_size |-> a.kernel_size,
                             padding_side |-> side, w |-> a.w])
    IN  [kind |-> "MultistreamConv2dPostFilter",
         padding |-> padding,
         scale |-> Scale,
         stream_sizes |-> a.stream_sizes,
         low_postfilter |-> sub(a.stream_sizes[1] + padding, "left"),
         mid_postfilter |-> sub(a.stream_sizes[2] + 2 * padding, "none"),
         high_postfilter |-> sub(a.stream_sizes[3] + padding, "right")]

\* BandSlices without the overlap into the neighbouring bands.
BandSlicesNoOverlap(f, x) ==
    LET s == f.stream_sizes
    IN  <<ChanSliceTo(x, s[1]),
          ChanSlice(x, s[1], s[1] + s[2]),
          ChanSliceFrom(x, s[1] + s[2])>>

\* The three overlapping slices of the input, low, mid and high.
BandSlices(f, x) ==
    LET s == f.stream_sizes
        p == f.padding
    IN  <<ChanSliceTo(x, s[1] + p),
          ChanSlice(x, s[1] - p, s[1] + s[2] + p),
          ChanSliceFrom(x, s[1] + s[2] - p)>>

\* torch.cat(ts, dim=-1) of tensors (B, T, C): B and T must agree.
RECURSIVE CatLast(_)
CatLast(ts) ==
    IF Len(ts) = 1 THEN Returned(ts[1])
    ELSE LET rest == CatLast(Tail(ts))
         IN  IF ~rest.ok THEN rest
             ELSE IF ts[1].B # rest.out.B \/ ts[1].T # rest.out.T
                  THEN Raised("RuntimeError")
             ELSE Returned([ts[1] EXCEPT !.ch = ts[1].ch \o rest.out.ch])

\* The band filters' outputs put together: the first band that fails ends
\* the call, otherwise the outputs are concatenated on the feature axis.
BandMerge(f, x, out1, out2, out3) ==
    LET fail(what, tr) == [ok |-> FALSE, err |-> what, out |-> NoTensor, trace |-> tr]
        done(r, tr) == [ok |-> r.ok, err |-> r.err, out |-> r.out, trace |-> tr]
    IN  IF Width(x) # SumSeq(f.stream_sizes) THEN fail("AssertionError", <<>>)
        ELSE IF ~out1.ok THEN fail(out1.err, <<out1>>)
        ELSE IF ~out2.ok THEN fail(out2.err, <<out1, out2>>)
        ELSE IF ~out3.ok THEN fail(out3.err, <<out1, out2, out3>>)
        ELSE done(CatLast(<<out1.out, out2.out, out3.out>>), <<out1, out2, out3>>)

\* The three band filters on the slices sl and the noise z.
BandFilters(f, x, sl, z) ==
    BandMerge(f, x,
              PadConv2dForward(f.low_postfilter, sl[1], z),
              PadConv2dForward(f.mid_postfilter, sl[2], z),
              PadConv2dForward(f.high_postfilter, sl[3], z))

\* MultistreamConv2dPostFilter.forward(x) with the noise draw `draw`: what
\* it gives back, and the band filters' calls in `trace`.
BandForward(f, x, draw) ==
    BandFilters(f, x, BandSlices(f, x), Map(<<x.B, x.T, 1>>, draw * f.scale))

(***************************************************************************)
(* MultistreamPostFilter                                                   *)
(***************************************************************************)
\* MultistreamPostFilter.__init__ stores its arguments; a filter that is
\* None is NoObject.
StreamObject(a) ==
    [kind |-> "MultistreamPostFilter",
     mgc_postfilter |-> a.mgc_postfilter,
     bap_postfilter |-> a.bap_postfilter,
     lf0_postfilter |-> a.lf0_postfilter,
     stream_sizes |-> a.stream_sizes,
     mgc_offset |-> a.mgc_offset,
     bap_offset |-> a.bap_offset]

\* nnsvs.multistream.split_streams: one stream per entry of stream_sizes,
\* each the next `size` channels of x.
split_streams(x, stream_sizes) ==
    [i \in 1..Len(stream_sizes) |->
        LET start == SumSeq(SubSeq(stream_sizes, 1, i - 1))
        IN  ChanSlice(x, start, start + stream_sizes[i])]

\* What a forward call gives back, without the calls it made.
Outcome(r) == [ok |-> r.ok, err |-> r.err, out |-> r.out, trace |-> <<>>]

\* forward of a per-stream filter.
FilterForward(f, x, draw) ==
    IF f.kind = "Conv2dPostFilter" THEN Conv2dForward(f, x, draw)
    ELSE IF f.kind = "Conv1dPostFilter" THEN Conv1dForward(f, x, draw)
    ELSE Outcome(BandForward(f, x, draw))

\* A stream s whose filter gave pf on arg: the leading `offset` channels of
\* s are put back in front of the filter's output.  `app` is the filter's
\* application, as the trace of forward records it.
Filtered(name, s, offset, arg, pf) ==
    LET res == IF ~pf.ok THEN pf
               ELSE IF offset > 0 THEN CatLast(<<ChanSliceTo(s, offset), pf.out>>)
               ELSE pf
    IN  [ok |-> res.ok, err |-> res.err, out |-> res.out,
         app |-> [filter |-> name, arg |-> arg, ok |-> pf.ok, out |-> pf.out]]

\* FilterStream with the filter applied to the whole stream, the offset
\* channels included.
FilterStreamWholeStream(name, f, s, offset, draw) ==
    Filtered(name, s, 0, s, FilterForward(f, s, draw))

\* A stream through its filter: the leading `offset` channels are kept and
\* the filter is applied to the rest.
FilterStream(name, f, s, offset, draw) ==
    Filtered(name, s, offset, IF offset > 0 THEN ChanSliceFrom(s, offset) ELSE s,
             FilterForward(f, IF offset > 0 THEN ChanSliceFrom(s, offset) ELSE s, draw))

\* A stream through its filter, or untouched when the filter is None.
MaybeFilter(name, f, s, offset, draw) ==
    IF f # NoObject
    THEN FilterStream(name, f, s, offset, draw)
    ELSE [ok |-> TRUE, err |-> "", out |-> s, app |-> [filter |-> "none"]]

\* The streams the final torch.cat names, for a stream count n: with five
\* streams `vuv` was bound to the fifth stream and `vib` was never bound.
Reassembled(n, mgc, lf0, vuv, bap, streams) ==
    IF n = 4 THEN CatLast(<<mgc, lf0, vuv, bap>>)
    ELSE IF n = 5 THEN Raised("UnboundLocalError")
    ELSE CatLast(<<mgc, lf0, vuv, bap, streams[5], streams[6]>>)

\* ValidStreamCount with the count check off by one at its upper end.
ValidStreamCountUpTo7(n) == n \in {4, 5, 6, 7}

\* The stream counts forward accepts.
ValidStreamCount(n) == n \in {4, 5, 6}

\* The filtered streams put together: the count is checked first, the first
\* filter that fails ends the call, otherwise the streams are concatenated.
StreamMerge(streams, mgc, bap, lf0) ==
    LET n == Len(streams)
        vuv == IF n = 5 THEN streams[5] ELSE streams[3]
        apps(rs) == SelectSeq([i \in 1..Len(rs) |-> rs[i].app], LAMBDA a : a.filter # "none")
        fail(what, tr) == [ok |-> FALSE, err |-> what, out |-> NoTensor, trace |-> tr]
        done(r, tr) == [ok |-> r.ok, err |-> r.err, out |-> r.out, trace |-> tr]
    IN  IF ~ValidStreamCount(n) THEN fail("ValueError", <<>>)
        ELSE IF ~mgc.ok THEN fail(mgc.err, apps(<<mgc>>))
        ELSE IF ~bap.ok THEN fail(bap.err, apps(<<mgc, bap>>))
        ELSE IF ~lf0.ok THEN fail(lf0.err, apps(<<mgc, bap, lf0>>))
        ELSE done(Reassembled(n, mgc.out, lf0.out, vuv, bap.out, streams),
                  apps(<<mgc, bap, lf0>>))

\* The streams through their filters, MGC, BAP and log-F0 in that order.
StreamFilters(f, streams, draw) ==
    StreamMerge(streams,
                MaybeFilter("mgc", f.mgc_postfilter, streams[1], f.mgc_offset, draw),
                MaybeFilter("bap", f.bap_postfilter, streams[4], f.bap_offset, draw),
                MaybeFilter("lf0", f.lf0_postfilter, streams[2], 0, draw))

\* MultistreamPostFilter.forward(x) with the noise draw `draw`: what it
\* gives back, and the filters' applications in `trace`.
StreamForward(f, x, draw) ==
    StreamFilters(f, split_streams(x, f.stream_sizes), draw)

(***************************************************************************)
(* The program: an object is constructed, then its forward is called.      *)
(*   obj   the object constructed (NoObject before, and when __init__      *)
(*         raised)                                                         *)
(*   ctor  the constructor call: its class, arguments and error            *)
(*   call  the last forward call: input, noise draw, what it gave back and *)
(*         the calls it made                                               *)
(*   prev  the forward call before it, when that was on the same input     *)
(***************************************************************************)
NoCtor == [state |-> "none"]

NoCall == [state |-> "none"]

Constructed(class, a, error, object) ==
    /\ ctor' = [state |-> IF error = "" THEN "returned" ELSE "raised",
                class |-> class, args |-> a, err |-> error]
    /\ obj' = IF error = "" THEN object ELSE NoObject
    /\ UNCHANGED <<call, prev>>

Called(x, draw, r) ==
    [state |-> IF r.ok THEN "returned" ELSE "raised",
     x |-> x, draw |-> draw, err |-> r.err, out |-> r.out, trace |-> r.trace]

\* The arguments the constructors are called with.
MaxBand == 3
MaxOffset == 2

Kernels1d == {3, 4, 5}
Kernels2d == {<<3, 3>>, <<5, 3>>, <<4, 4>>}
KernelsBand == {1, 3, 4, 5}
PaddingModes == {"zeros", "reflect"}
NoiseTypes == {"bin_wise", "frame_wise", "other"}
InDims == {NoneDim} \cup (1..MaxChan)

Conv2dArgs ==
    [in_dim : InDims, kernel_size : Kernels2d, use_noise : Bool, use_tadn : Bool,
     residual : Bool, noise_type : NoiseTypes, padding_mode : PaddingModes,
     w : Weights]

Conv1dArgs ==
    [in_dim : InDims, kernel_size : Kernels1d, use_noise : Bool, use_tadn : Bool,
     padding_mode : PaddingModes, w : Weights]

BandSizes ==
    [1..3 -> 1..MaxBand] \cup {<<8, 20, 30>>, <<2, 2>>, <<2, 2, 2, 2>>}

BandArgs == [stream_sizes : BandSizes, kernel_size : KernelsBand, w : Weights]

\* The filters a MultistreamPostFilter is given: the classes' defaults, and
\* for MGC also the band filter.
DefaultConv2d(w) ==
    Conv2dObject([in_dim |-> NoneDim, kernel_size |-> <<5, 5>>, use_noise |-> TRUE,
                  use_tadn |-> FALSE, residual |-> TRUE, noise_type |-> "bin_wise",
                  padding_mode |-> "zeros", w |-> w])

DefaultConv1d(w) ==
    Conv1dObject([in_dim |-> NoneDim, kernel_size |-> 5, use_noise |-> FALSE,
                  use_tadn |-> FALSE, padding_mode |-> "zeros", w |-> w])

SmallBand(w) == BandObject([stream_sizes |-> <<2, 2, 2>>, kernel_size |-> 3, w |-> w])

StreamLayouts ==
    UNION {{s \in [1..n -> {1, 2, 3, 6, 8}] :
              /\ s[1] \in {3, 6, 8}
              /\ s[2] \in {1, 2}
              /\ s[3] = 1
              /\ s[4] \in {1, 3}
              /\ n >= 5 => s[5] = 2
              /\ n >= 6 => s[6] = 1} : n \in 4..6}
      \cup {<<3, 1, 1>>, <<8, 1, 1>>, <<3, 1, 1, 1, 2, 1, 1>>, <<8, 1, 1, 3, 2, 1, 1>>}

StreamArgs ==
    UNION {[mgc_postfilter : {NoObject, DefaultConv2d(w), SmallBand(w)},
            bap_postfilter : {NoObject, DefaultConv2d(w)},
            lf0_postfilter : {NoObject, DefaultConv1d(w)},
            stream_sizes : StreamLayouts,
            mgc_offset : 0..MaxOffset,
            bap_offset : 0..(MaxOffset - 1)] : w \in Weights}

NewConv2dPostFilter ==
    /\ ctor.state = "none"
    /\ \E a \in Conv2dArgs :
          Constructed("Conv2dPostFilter", a, Conv2dInitError(a), Conv2dObject(a))

NewConv1dPostFilter ==
    /\ ctor.state = "none"
    /\ \E a \in Conv1dArgs :
          Constructed("Conv1dPostFilter", a, Conv1dInitError(a), Conv1dObject(a))

NewMultistreamConv2dPostFilter ==
    /\ ctor.state = "none"
    /\ \E a \in BandArgs :
          Constructed("MultistreamConv2dPostFilter", a, BandInitError(a), BandObject(a))

NewMultistreamPostFilter ==
    /\ ctor.state = "none"
    /\ \E a \in StreamArgs :
          Constructed("MultistreamPostFilter", a, "", StreamObject(a))

\* forward of the object constructed, whatever its class.
Forward(f, x, draw) ==
    IF f.kind = "MultistreamPostFilter" THEN StreamForward(f, x, draw)
    ELSE IF f.kind = "MultistreamConv2dPostFilter" THEN BandForward(f, x, draw)
    ELSE FilterForward(f, x, draw)

\* The widths of the inputs an object is called with: a single-stream filter
\* with any small width, a band filter with the widths around its bands'
\* sum, a multi-stream filter with its layout's sum.
InputWidths(f) ==
    IF f.kind = "MultistreamPostFilter" THEN {SumSeq(f.stream_sizes)}
    ELSE IF f.kind = "MultistreamConv2dPostFilter"
         THEN {w \in {SumSeq(f.stream_sizes) + d : d \in {-1, 0, 1}} : w >= 1}
    ELSE 1..MaxChan

Inputs(f) == {Input(b, t, c) : b \in Batches, t \in Times, c \in InputWidths(f)}

\* A forward call on an input.
CallForward ==
    /\ obj # NoObject
    /\ call.state = "none"
    /\ \E x \in Inputs(obj), draw \in Noise :
          call' = Called(x, draw, Forward(obj, x, draw))
    /\ prev' = NoCall
    /\ UNCHANGED <<obj, ctor>>

\* A second forward call on the same input: the random source draws again.
CallForwardAgain ==
    /\ call.state # "none"
    /\ prev.state = "none"
    /\ \E draw \in Noise :
          call' = Called(call.x, draw, Forward(obj, call.x, draw))
    /\ prev' = call
    /\ UNCHANGED <<obj, ctor>>

Init ==
    /\ obj = NoObject
    /\ ctor = NoCtor
    /\ call = NoCall
    /\ prev = NoCall

Next ==
    \/ NewConv2dPostFilter
    \/ NewConv1dPostFilter
    \/ NewMultistreamConv2dPostFilter
    \/ NewMultistreamPostFilter
    \/ CallForward
    \/ CallForwardAgain

Spec == Init /\ [][Next]_vars

\* The single-stream filters alone.
NextFilter ==
    \/ NewConv2dPostFilter
    \/ NewConv1dPostFilter
    \/ CallForward
    \/ CallForwardAgain

SpecFilter == Init /\ [][NextFilter]_vars

\* The band filter alone.
NextBand ==
    \/ NewMultistreamConv2dPostFilter
    \/ CallForward

SpecBand == Init /\ [][NextBand]_vars

\* The multi-stream filter alone.
NextStream ==
    \/ NewMultistreamPostFilter
    \/ CallForward

SpecStream == Init /\ [][NextStream]_vars

(***************************************************************************)
(* Properties of MultistreamPostFilter.forward (checked under SpecStream). *)
(***************************************************************************)
StreamCall == obj.kind = "MultistreamPostFilter" /\ call.state # "none"

\* The 0-based channel at which stream i of the layout starts.
StreamStart(sizes, i) == SumSeq(SubSeq(sizes, 1, i - 1))

\* Every per-stream filter that was applied returned a tensor of the shape
\* of its argument.
FiltersPreserveShape ==
    \A i \in 1..Len(call.trace) :
        LET a == call.trace[i]
        IN  /\ a.ok
            /\ a.out.B = a.arg.B
            /\ a.out.T = a.arg.T
            /\ Width(a.out) = Width(a.arg)

\* Column j of the output carries the values of column j of the input.
SameChannels(out, x) ==
    /\ out.B = x.B
    /\ out.T = x.T
    /\ Width(out) = Width(x)
    /\ \A j \in 1..Width(x) : out.ch[j].id = x.ch[j].id

\* C1: for a layout of 4, 5 or 6 streams summing to the input's width,
\* forward returns an output of the input's shape whose channels are the
\* input's channels in their original order, whichever filters are assigned
\* (each of them shape-preserving).
C1_OutputKeepsShapeAndOrder ==
    (StreamCall /\ Len(obj.stream_sizes) \in {4, 5, 6} /\ FiltersPreserveShape)
        => (call.state = "returned" /\ SameChannels(call.out, call.x))

\* C2: with no filter assigned (mgc, bap and lf0 filters all None) and a
\* layout of 4, 5 or 6 streams, forward returns its input, cell for cell.
C2_SplitThenReassembleIsIdentity ==
    (/\ StreamCall
     /\ Len(obj.stream_sizes) \in {4, 5, 6}
     /\ obj.mgc_postfilter = NoObject
     /\ obj.bap_postfilter = NoObject
     /\ obj.lf0_postfilter = NoObject)
        => (call.state = "returned" /\ call.out = call.x)

\* What C1 and C2 say, for the layouts of 4 and of 6 streams only.
C1_HoldsForFourAndSix ==
    (StreamCall /\ Len(obj.stream_sizes) \in {4, 6}) => C1_OutputKeepsShapeAndOrder

C2_HoldsForFourAndSix ==
    (StreamCall /\ Len(obj.stream_sizes) \in {4, 6}) => C2_SplitThenReassembleIsIdentity

\* The channels [from, to) of x, 0-based, as a sequence of columns.
Channels(x, from, to) == [j \in 1..(to - from) |-> x.ch[from + j]]

\* What C3 says of one stream (the stream at position pos of the layout,
\* filtered under `name` with offset o).
OffsetPreserved(name, pos, o) ==
    LET sizes == obj.stream_sizes
        start == StreamStart(sizes, pos)
        size  == sizes[pos]
        kept  == Min(o, size)
    IN  /\ \A i \in 1..Len(call.trace) :
              call.trace[i].filter = name
                  => call.trace[i].arg.ch = Channels(call.x, start + kept, start + size)
        /\ (call.state = "returned" /\ o > 0)
              => \A j \in 1..kept : call.out.ch[start + j] = call.x.ch[start + j]

\* C3: the filter of the spectral-envelope stream and the filter of the
\* aperiodicity stream are applied to the channels [offset, size) of their
\* stream only (to the whole stream when the offset is 0), and with an
\* offset o > 0 the first o channels of the stream are the same in the
\* output as in the input.
C3_OffsetChannelsPreserved ==
    (StreamCall /\ Len(obj.stream_sizes) \in {4, 5, 6})
        => /\ OffsetPreserved("mgc", 1, obj.mgc_offset)
           /\ OffsetPreserved("bap", 4, obj.bap_offset)

\* A returned call whose spectral-envelope filter changed the channels
\* after an offset of 2 and left the first two alone, and whose
\* aperiodicity filter did the same after an offset of 1.
C3_Witness ==
    /\ StreamCall
    /\ call.state = "returned"
    /\ obj.mgc_offset = 2
    /\ obj.mgc_postfilter # NoObject
    /\ obj.bap_offset = 1
    /\ obj.bap_postfilter # NoObject
    /\ call.out.ch[2] = call.x.ch[2]
    /\ call.out.ch[3].res # 0
    /\ call.out.ch[Width(call.x)].res # 0

\* C9: with a layout of any other number of streams than 4, 5 or 6, forward
\* raises ValueError, applies no filter and gives no output.
C9_StreamCountChecked ==
    (StreamCall /\ Len(obj.stream_sizes) \notin {4, 5, 6})
        => /\ call.state = "raised"
           /\ call.err = "ValueError"
           /\ call.trace = <<>>
           /\ call.out = NoTensor

\* A call with three streams and all filters assigned that raised.
C9_Witness ==
    /\ StreamCall
    /\ Len(obj.stream_sizes) = 3
    /\ obj.mgc_postfilter # NoObject
    /\ obj.bap_postfilter # NoObject
    /\ obj.lf0_postfilter # NoObject
    /\ call.state = "raised"

(***************************************************************************)
(* Properties of MultistreamConv2dPostFilter (checked under SpecBand).     *)
(***************************************************************************)
BandClass == ctor.state # "none" /\ ctor.class = "MultistreamConv2dPostFilter"

BandCall == obj.kind = "MultistreamConv2dPostFilter" /\ call.state # "none"

\* The slices have widths low+R, mid+2R and high+R, the band filters give
\* back widths low, mid and high, and the output has the input's shape.
BandWidthsAsClaimed ==
    LET s == obj.stream_sizes
        R == obj.padding
    IN  /\ call.state = "returned"
        /\ Len(call.trace) = 3
        /\ Width(call.trace[1].x) = s[1] + R
        /\ Width(call.trace[2].x) = s[2] + 2 * R
        /\ Width(call.trace[3].x) = s[3] + R
        /\ \A i \in 1..3 : Width(call.trace[i].out) = s[i]
        /\ Width(call.out) = Width(call.x)
        /\ call.out.B = call.x.B
        /\ call.out.T = call.x.T

\* C4 as stated: for every band-size triple summing to the input's width,
\* whatever the kernel size.
C4_EveryTriple ==
    (BandCall /\ Width(call.x) = SumSeq(obj.stream_sizes)) => BandWidthsAsClaimed

\* The configurations and inputs forward completes on: an odd kernel size
\* with reach R >= 1, low and high bands at least R wide, every band at
\* least 2 wide, more than R time steps and an input as wide as the bands' sum.
BandValid ==
    LET s == obj.stream_sizes
        R == obj.padding
    IN  /\ Width(call.x) = SumSeq(s)
        /\ ctor.args.kernel_size % 2 = 1
        /\ R >= 1
        /\ s[1] >= R
        /\ s[3] >= R
        /\ \A i \in 1..3 : s[i] >= 2
        /\ call.x.T > R

\* C4: for an odd kernel size with reach R >= 1, bands (low, mid, high)
\* summing to the input's width with low >= R, high >= R and every band at
\* least 2 wide, and more than R time steps, the slices have widths low+R,
\* mid+2R and high+R, the band filters return widths low, mid and high, and
\* the output has the input's width, batch and time extents.
C4_BandReassemblyWidth == (BandCall /\ BandValid) => BandWidthsAsClaimed

\* Bands (8, 20, 30) with R = 2 on width 58: slices 10, 24, 32, output 58.
C4_Witness ==
    /\ BandCall
    /\ obj.stream_sizes = <<8, 20, 30>>
    /\ obj.padding = 2
    /\ call.state = "returned"
    /\ Width(call.trace[1].x) = 10
    /\ Width(call.trace[2].x) = 24
    /\ Width(call.trace[3].x) = 32
    /\ Width(call.out) = 58

\* forward completes on no other configuration or input.
C4_ReturnsOnlyWhenValid == (BandCall /\ call.state = "returned") => BandValid

\* A band narrower than the reach.
BandTooNarrow(sizes, R) == sizes[1] < R \/ sizes[3] < R

\* C6 as stated: an inconsistent configuration (a band narrower than the
\* reach, or sizes not summing to the width forward is given) makes the
\* constructor raise, so forward is never called on one.
C6_RejectedAtConstruction ==
    BandClass
        => /\ (Len(ctor.args.stream_sizes) = 3
                 /\ BandTooNarrow(ctor.args.stream_sizes,
                                  HalfKernel(ctor.args.kernel_size)))
                => ctor.state = "raised"
           /\ BandCall => Width(call.x) = SumSeq(obj.stream_sizes)

\* C6: the constructor checks only that there are three band sizes; band
\* sizes that do not sum to the input's width, or a low or high band
\* narrower than the reach, are accepted at construction and make forward
\* raise, without an output: sizes not summing to the width fail its
\* assertion before any band filter is called.
C6_RejectedAtCallTime ==
    BandClass
        => /\ ctor.state = "raised" <=> Len(ctor.args.stream_sizes) # 3
           /\ (BandCall /\ (Width(call.x) # SumSeq(obj.stream_sizes)
                             \/ BandTooNarrow(obj.stream_sizes, obj.padding)))
                => (call.state = "raised" /\ call.out = NoTensor)
           /\ (BandCall /\ Width(call.x) # SumSeq(obj.stream_sizes))
                => (call.err = "AssertionError" /\ call.trace = <<>>)

\* A constructed filter whose low band is narrower than the reach, called on
\* an input as wide as its bands' sum: forward raised.
C6_Witness ==
    /\ BandCall
    /\ ctor.state = "returned"
    /\ obj.stream_sizes[1] < obj.padding
    /\ Width(call.x) = SumSeq(obj.stream_sizes)
    /\ call.state = "raised"

\* The padded input px of a band filter's first stage holds the input x at
\* `left` columns from its low edge, with `right` columns after it, and R
\* rows more than x on either side of the time axis.
PaddedBy(t, left, right, R) ==
    /\ Width(t.px) = left + Width(t.x) + right
    /\ SubSeq(t.px.ch, left + 1, left + Width(t.x)) = t.x.ch
    /\ t.px.T = R + t.x.T + R

\* The conditioning input x_syn is x without `low` columns at its low edge
\* and `high` columns at its high edge.
TrimmedBy(t, low, high) ==
    t.x_syn.ch = SubSeq(t.x.ch, low + 1, Width(t.x) - high)

\* What C10 says of one call t of a band filter with reach R, the middle
\* band padded by `mid` on both feature-axis edges.
EdgeHandling(t, R, mid) ==
    /\ t.px # NoTensor
         => /\ t.side = "left" => PaddedBy(t, R, 0, R)
            /\ t.side = "right" => PaddedBy(t, 0, R, R)
            /\ t.side = "none" => PaddedBy(t, mid, mid, R)
    /\ t.x_syn # NoTensor
         => /\ t.side = "left" => TrimmedBy(t, 0, R)
            /\ t.side = "right" => TrimmedBy(t, R, 0)
            /\ t.side = "none" => TrimmedBy(t, R, R)

\* C10 as stated (for a reach R >= 1): the middle band is padded by R on
\* both feature-axis edges.
C10_MiddleBandPadded ==
    (BandCall /\ obj.padding >= 1) => \A i \in 1..Len(call.trace) :
                    EdgeHandling(call.trace[i], obj.padding, obj.padding)

\* C10: with reach R >= 1, before the first stage the 'left' band is padded
\* by R on the low-index feature edge only, the 'right' band by R on the
\* high-index feature edge only and the 'none' (middle) band not at all on
\* the feature axis; the time axis is padded by R on both sides; after the
\* first stage the conditioning input is trimmed by R on the high edge
\* ('left'), the low edge ('right') or both edges ('none').
C10_DirectionalEdgeHandling ==
    (BandCall /\ obj.padding >= 1)
        => \A i \in 1..Len(call.trace) : EdgeHandling(call.trace[i], obj.padding, 0)

\* A returned call with reach 2 whose three band filters padded and trimmed.
C10_Witness ==
    /\ BandCall
    /\ obj.padding = 2
    /\ call.state = "returned"
    /\ Len(call.trace) = 3
    /\ \A i \in 1..3 : call.trace[i].px # NoTensor /\ call.trace[i].x_syn # NoTensor
    /\ Width(call.trace[2].px) = Width(call.trace[2].x)
    /\ Width(call.trace[1].px) = Width(call.trace[1].x) + 2

\* The 0-based index of band i's first own channel in the input.
BandStart(i) == SumSeq(SubSeq(obj.stream_sizes, 1, i - 1))

\* The input's channels that are band i's own, without the overlap.
OwnColumns(i) ==
    SubSeq(call.x.ch, BandStart(i) + 1, BandStart(i) + obj.stream_sizes[i])

\* The configurations and inputs C11 is about: an odd kernel size with reach
\* R >= 1, low and high bands at least R wide and more than R time steps.
BandAlignable ==
    /\ ctor.args.kernel_size % 2 = 1
    /\ obj.padding >= 1
    /\ obj.stream_sizes[1] >= obj.padding
    /\ obj.stream_sizes[3] >= obj.padding
    /\ call.x.T > obj.padding

\* The output's channel j is the input's channel j with the residual of the
\* band it lies in added: the band filters' outputs, each the band's own
\* columns plus its residual, in the order low, mid, high.
OutputAligned ==
    /\ Len(call.trace) = 3
    /\ call.out.ch = call.trace[1].out.ch \o call.trace[2].out.ch \o call.trace[3].out.ch
    /\ \A i \in 1..3 :
          /\ Width(call.trace[i].out) = obj.stream_sizes[i]
          /\ \A j \in 1..obj.stream_sizes[i] :
                /\ call.trace[i].out.ch[j].id = OwnColumns(i)[j].id
                /\ call.trace[i].out.ch[j].res
                     = (OwnColumns(i)[j].res + call.trace[i].out.ch[1].res) % DigMod
    /\ Width(call.out) = Width(call.x)
    /\ \A j \in 1..Width(call.x) : call.out.ch[j].id = call.x.ch[j].id

\* C11: for an odd kernel size with reach R >= 1, low >= R, high >= R and
\* more than R time steps, the trimmed conditioning input of each band
\* filter is the band's own input channels, [0, low), [low, low+mid) and
\* [low+mid, W), and the output forward returns has at channel j the input's
\* channel j plus a residual, for every j in [0, W): no channel is
\* duplicated, dropped or shifted by the overlap.
C11_BandAlignment ==
    (BandCall /\ BandAlignable)
        => /\ \A i \in 1..Len(call.trace) :
                 call.trace[i].x_syn # NoTensor
                    => call.trace[i].x_syn.ch = OwnColumns(i)
           /\ call.state = "returned" => OutputAligned

\* Bands (2, 3, 2) with reach 2 on width 7: forward returned, the three
\* trimmed inputs are channels 1..2, 3..5 and 6..7 and the output has the
\* seven channels in the input's order.
C11_Witness ==
    /\ BandCall
    /\ BandAlignable
    /\ obj.stream_sizes = <<2, 3, 2>>
    /\ obj.padding = 2
    /\ call.state = "returned"
    /\ Len(call.trace) = 3
    /\ call.trace[2].x_syn.ch = <<Col(3), Col(4), Col(5)>>
    /\ [j \in 1..7 |-> call.out.ch[j].id] = <<1, 2, 3, 4, 5, 6, 7>>

\* A band of width 1 under the same conditions: its filter trimmed its
\* input to the band's own channel, and forward raised after that.
C11_WitnessNarrowBand ==
    /\ BandCall
    /\ BandAlignable
    /\ obj.stream_sizes[2] = 1
    /\ call.state = "raised"
    /\ Len(call.trace) >= 2
    /\ call.trace[2].x_syn # NoTensor
    /\ Width(call.trace[2].x_syn) = 1

\* Alignment of a returned output needs no condition of its own: forward
\* returns on no configuration outside C11's.
C11_ReturnedIsAligned == (BandCall /\ call.state = "returned") => OutputAligned

(***************************************************************************)
(* Properties of Conv1dPostFilter and Conv2dPostFilter (checked under      *)
(* SpecFilter).                                                            *)
(***************************************************************************)
FilterClass ==
    ctor.state # "none" /\ ctor.class \in {"Conv1dPostFilter", "Conv2dPostFilter"}

FilterCall ==
    obj.kind \in {"Conv1dPostFilter", "Conv2dPostFilter"} /\ call.state # "none"

\* Noise modulation without noise injection, or (2-D filter) with
\* frame-wise noise.
InvalidNoiseConfig(class, a) ==
    /\ a.use_tadn
    /\ \/ ~a.use_noise
       \/ class = "Conv2dPostFilter" /\ a.noise_type = "frame_wise"

\* C5: a single-stream filter constructed with noise modulation but without
\* noise injection, or a 2-D filter constructed with modulation and
\* frame-wise noise, fails in its constructor: no such object ever exists.
C5_InvalidNoiseRejected ==
    (FilterClass /\ InvalidNoiseConfig(ctor.class, ctor.args))
        => (ctor.state = "raised" /\ obj = NoObject)

\* What C5 says, for the 1-D filter and for the 2-D filter's frame-wise
\* noise: these the constructors do reject.
C5_HoldsForConv1dAndFrameWise ==
    (FilterClass /\ InvalidNoiseConfig(ctor.class, ctor.args)
       /\ (ctor.class = "Conv1dPostFilter" \/ ctor.args.noise_type = "frame_wise"))
        => (ctor.state = "raised" /\ obj = NoObject)

OddKernel ==
    IF obj.kind = "Conv1dPostFilter" THEN obj.kernel_size % 2 = 1
    ELSE obj.kernel_size[1] % 2 = 1 /\ obj.kernel_size[2] % 2 = 1

SameShape(out, x) == out.B = x.B /\ out.T = x.T /\ Width(out) = Width(x)

\* Zero padding, or reflect padding narrower than the extents it pads.
PaddingFits ==
    \/ obj.padding_mode = "zeros"
    \/ IF obj.kind = "Conv2dPostFilter"
       THEN call.x.T > obj.padding[1] /\ Width(call.x) > obj.padding[2]
       ELSE call.x.T > obj.padding

\* in_dim is the input's channel count when the noise is projected to in_dim
\* channels (frame-wise) or modulated over in_dim channels.
NoiseFits ==
    IF obj.kind = "Conv2dPostFilter"
    THEN (obj.use_noise /\ (obj.noise_type = "frame_wise" \/ obj.tadn))
            => obj.in_dim = Width(call.x)
    ELSE obj.tadn => obj.in_dim = Width(call.x)

\* C7 as stated (for the padding and the in_dim that fit the input): with
\* odd kernel sizes, forward of the 1-D and of the 2-D filter completes on
\* every input, whatever its channel count, and returns an output of the
\* input's shape.
C7_AnyChannelCount ==
    (FilterCall /\ OddKernel /\ PaddingFits /\ NoiseFits)
        => (call.state = "returned" /\ SameShape(call.out, call.x))

\* The inputs a filter's forward completes on: those above, and for the 1-D
\* filter those of exactly one channel.
FilterValid ==
    /\ OddKernel
    /\ PaddingFits
    /\ NoiseFits
    /\ obj.kind = "Conv1dPostFilter" => Width(call.x) = 1

\* C7: with odd kernel sizes, noise injection on or off, zero padding (or
\* reflect padding narrower than the time and channel extents) and in_dim
\* equal to the channel count when the noise is frame-wise or modulated,
\* forward of the 2-D filter completes on every input of shape (batch, time,
\* channels), any channel count, and forward of the 1-D filter on every
\* input with exactly one channel, and returns an output of exactly the
\* input's shape; the 1-D filter raises on an input with more than one
\* channel.
C7_ShapePreserved ==
    FilterCall
        => /\ FilterValid => (call.state = "returned" /\ SameShape(call.out, call.x))
           /\ (obj.kind = "Conv1dPostFilter" /\ Width(call.x) # 1)
                => call.state = "raised"

\* forward completes on no other input.
C7_ReturnsOnlyWhenValid == (FilterCall /\ call.state = "returned") => FilterValid

\* A 2-D filter with projected frame-wise noise that returned on an input of
\* three channels.
C7_Witness ==
    /\ FilterCall
    /\ obj.kind = "Conv2dPostFilter"
    /\ obj.use_noise
    /\ obj.noise_type = "frame_wise"
    /\ Width(call.x) = 3
    /\ call.x.T = 2
    /\ call.state = "returned"
    /\ SameShape(call.out, call.x)

\* A 1-D filter that returned on an input of one channel.
C7_WitnessConv1d ==
    /\ FilterCall
    /\ obj.kind = "Conv1dPostFilter"
    /\ obj.use_noise
    /\ Width(call.x) = 1
    /\ call.state = "returned"
    /\ SameShape(call.out, call.x)

\* C8: a filter constructed with use_noise false gives, on a second call on
\* the same input, what it gave on the first, whatever the random source
\* draws in either call.
C8_DeterministicWithoutNoise ==
    (FilterCall /\ ~obj.use_noise /\ prev.state # "none")
        => /\ call.x = prev.x
           /\ call.state = prev.state
           /\ call.err = prev.err
           /\ call.out = prev.out

\* Two returned calls of a 2-D filter without noise injection, on the same
\* input and with different noise draws; the filter changed its input.
C8_Witness ==
    /\ FilterCall
    /\ obj.kind = "Conv2dPostFilter"
    /\ ~obj.use_noise
    /\ prev.state = "returned"
    /\ call.state = "returned"
    /\ call.draw # prev.draw
    /\ call.out.ch[1] # call.x.ch[1]

=============================================================================
